---- MODULE Spec2Model ----
(***************************************************************************)
(* State-machine model of tglogging.TelegramLogHandler                     *)
(* (src/tglogging/tglogger.py): the intake gate of emit(), the flush       *)
(* coroutine handle_logs() with its suspension points at every network     *)
(* call, the remote endpoint's answers, and handle_error().                *)
(*                                                                         *)
(* A message text in a request is the log content handed to send_message  *)
(* or edit_message; the fixed wrapper "```title\n ... ```" added at lines  *)
(* 150 and 162 is not part of it.                                          *)
(***************************************************************************)
EXTENDS Integers, Sequences, FiniteSets

VARIABLES
    \* constructor configuration (lines 46-57)
    wait_time, minimum, pending, ignore_match,
    \* handler fields (lines 58-63)
    messages, current_msg, floodwait, message_id, lines, last_update,
    \* environment: the clock, the flush tasks of the event loop, the chat
    now, tasks, remote,
    \* history, for stating the properties: the emit() calls and the last
    \* line, the text accepted and removed, the times of the accepted lines,
    \* the last rate-limit answer, whether two flushes were ever in flight,
    \* the messages of the chat and the text removed at the last file flush
    emits, lastLine, accepted, removed, accTimes, lastFlood, overlap,
    resetMark

cfgvars  == <<wait_time, minimum, pending, ignore_match>>
progvars == <<messages, current_msg, floodwait, message_id, lines, last_update>>
envvars  == <<now, tasks, remote>>
histvars == <<emits, lastLine, accepted, removed, accTimes, lastFlood, overlap,
              resetMark>>
vars     == <<cfgvars, progvars, envvars, histvars>>

------------------------------------------------------------------------------
(* Bounds of the exploration *)

\* number of emit() calls explored
MaxEmits == 3
\* seconds of clock explored after construction
MaxElapsed == 12
\* flush tasks explored
MaxTasks == 3

\* the clock advances in steps of these many seconds
TickSteps == {6}
\* retry_after values the endpoint may answer with
RetryAfters == {3, 12}

------------------------------------------------------------------------------
(* Text: a Python str, kept run-length encoded as a sequence of runs        *)
(* [c |-> character, n |-> repetitions >= 1] in which neighbouring runs     *)
(* hold different characters, so that equal strings are equal values.       *)

NL == "\n"

NoText == <<>>

\* c * k
Rep(c, k) == IF k <= 0 THEN <<>> ELSE <<[c |-> c, n |-> k]>>

Max(a, b) == IF a >= b THEN a ELSE b

Min(a, b) == IF a <= b THEN a ELSE b

\* a + b
Cat(a, b) ==
    IF a = <<>> THEN b
    ELSE IF b = <<>> THEN a
    ELSE IF a[Len(a)].c = b[1].c
         THEN SubSeq(a, 1, Len(a) - 1)
              \o <<[c |-> b[1].c, n |-> a[Len(a)].n + b[1].n]>>
              \o SubSeq(b, 2, Len(b))
         ELSE a \o b

\* len(s)
TLen(s) ==
    LET sum[i \in 0..Len(s)] == IF i = 0 THEN 0 ELSE sum[i - 1] + s[i].n
    IN  sum[Len(s)]

\* s[:k]
RECURSIVE Take(_, _)
Take(s, k) ==
    IF k <= 0 \/ s = <<>> THEN <<>>
    ELSE IF s[1].n <= k
         THEN <<s[1]>> \o Take(SubSeq(s, 2, Len(s)), k - s[1].n)
         ELSE <<[c |-> s[1].c, n |-> k]>>

\* s[k:]
RECURSIVE Drop(_, _)
Drop(s, k) ==
    IF k <= 0 \/ s = <<>> THEN s
    ELSE IF s[1].n <= k
         THEN Drop(SubSeq(s, 2, Len(s)), k - s[1].n)
         ELSE <<[c |-> s[1].c, n |-> s[1].n - k]>> \o SubSeq(s, 2, Len(s))

\* index of the last run of newlines of s, 0 when it has none
LastNLRun(s) ==
    LET I == {i \in 1..Len(s) : s[i].c = NL}
    IN  IF I = {} THEN 0 ELSE CHOOSE i \in I : \A j \in I : j <= i

\* s.rsplit("\n", 1)[0]: the text before the last newline, all of s without one
Rsplit0(s) ==
    LET i == LastNLRun(s)
    IN  IF i = 0 THEN s ELSE SubSeq(s, 1, i - 1) \o Rep(NL, s[i].n - 1)

\* the characters of s, one by one
RECURSIVE Chars(_)
Chars(s) ==
    IF s = <<>> THEN <<>>
    ELSE [i \in 1..s[1].n |-> s[1].c] \o Chars(SubSeq(s, 2, Len(s)))

\* s with every run cut to at most k characters
Clip(s, k) == [i \in 1..Len(s) |-> [c |-> s[i].c, n |-> Min(s[i].n, k)]]

\* match in msg.  An occurrence of match takes at most len(match) characters
\* of any one run of msg, so the search runs over msg with its runs cut to
\* that length.
Contains(msg, match) ==
    LET m == TLen(match)
        hay == Chars(Clip(msg, m))
        needle == Chars(match)
    IN  \E i \in 1..(Len(hay) - m + 1) : SubSeq(hay, i, i + m - 1) = needle

------------------------------------------------------------------------------
(* Program constants and configuration *)

\* the text ceiling, lines 97, 110, 111
MaxChars == 4050

\* time.time() when the handler is constructed (seconds since the epoch)
StartTime == 1700000000

\* constructor arguments explored: update_interval and minimum_lines at
\* their defaults (lines 37-38) and at 5 with 3 lines; ignore_match a list
\* of str, the default "" and a str; pending_logs
Configs ==
    { [update_interval |-> 5, minimum_lines |-> 1, pending_logs |-> 6000,
       ignore_match |-> [isStr |-> FALSE, v |-> <<Rep("D", 1), Rep("E", 2)>>]],
      [update_interval |-> 5, minimum_lines |-> 3, pending_logs |-> 6000,
       ignore_match |-> [isStr |-> TRUE, v |-> NoText]],
      [update_interval |-> 5, minimum_lines |-> 3, pending_logs |-> 6000,
       ignore_match |-> [isStr |-> TRUE, v |-> Rep("D", 1)]] }

\* lines 48-55: the list of substrings, or None
IgnoreList(arg) ==
    IF (IF arg.isStr THEN TLen(arg.v) ELSE Len(arg.v)) > 0
    THEN [none |-> FALSE, list |-> IF arg.isStr THEN <<arg.v>> ELSE arg.v]
    ELSE [none |-> TRUE, list |-> <<>>]

\* formatted records handed to emit()
Lines == { Rep("a", 1), Cat(Rep("a", 1), Rep("D", 1)),
           Rep("y", 4048), Rep("x", 4049) }

------------------------------------------------------------------------------
(* emit, lines 70-84 *)

\* Ignored, were the line compared with == instead of searched with in
IgnoredWhenEqual(msg) ==
    /\ ~ignore_match.none
    /\ \E k \in 1..Len(ignore_match.list) : msg = ignore_match.list[k]

\* lines 72-75
Ignored(msg) ==
    /\ ~ignore_match.none
    /\ \E k \in 1..Len(ignore_match.list) : Contains(msg, ignore_match.list[k])

\* Gate, were the line count not consulted
GateOnTimeOnly(diff, n) == diff >= Max(wait_time, floodwait)

\* line 79
Gate(diff, n) == diff >= Max(wait_time, floodwait) /\ n >= minimum

NoReq == [op |-> "none", id |-> 0, text |-> NoText]

\* a task created by loop.create_task(self.handle_logs()), line 82
\* (failed: an answer to one of its requests went to handle_error, or
\* verify_bot raised; old_id: self.message_id when the branch of line 110
\* was taken)
NewTask ==
    [pc |-> "start", mode |-> "none", msg |-> NoText, buflen |-> 0,
     computed |-> NoText, to_edit |-> NoText, to_new |-> NoText,
     req |-> NoReq, failed |-> FALSE, old_id |-> 0]

\* emit, were the floor left as it is when a flush is scheduled
emitKeepsFloor(msg) ==
    /\ emits < MaxEmits
    /\ (~Ignored(msg) /\ Gate(now - last_update, lines + 1)) => Len(tasks) < MaxTasks
    /\ emits' = emits + 1
    /\ lastLine' = msg
    /\ IF Ignored(msg)
       THEN UNCHANGED <<progvars, tasks, accepted, accTimes>>
       ELSE /\ messages' = Cat(messages, Cat(msg, Rep(NL, 1)))
            /\ accepted' = Cat(accepted, Cat(msg, Rep(NL, 1)))
            /\ accTimes' = Append(accTimes, now)
            /\ IF Gate(now - last_update, lines + 1)
               THEN /\ tasks' = Append(tasks, NewTask)
                    /\ lines' = 0
                    /\ last_update' = now
                    /\ UNCHANGED floodwait
               ELSE /\ lines' = lines + 1
                    /\ UNCHANGED <<floodwait, tasks, last_update>>
            /\ UNCHANGED <<current_msg, message_id>>
    /\ UNCHANGED <<cfgvars, now, remote, removed, lastFlood, overlap>>
    /\ UNCHANGED resetMark

emit(msg) ==
    /\ emits < MaxEmits
    /\ (~Ignored(msg) /\ Gate(now - last_update, lines + 1)) => Len(tasks) < MaxTasks
    /\ emits' = emits + 1
    /\ lastLine' = msg
    /\ IF Ignored(msg)
       THEN UNCHANGED <<progvars, tasks, accepted, accTimes>>
       ELSE /\ messages' = Cat(messages, Cat(msg, Rep(NL, 1)))
            /\ accepted' = Cat(accepted, Cat(msg, Rep(NL, 1)))
            /\ accTimes' = Append(accTimes, now)
            /\ IF Gate(now - last_update, lines + 1)
               THEN /\ floodwait' = 0
                    /\ tasks' = Append(tasks, NewTask)
                    /\ lines' = 0
                    /\ last_update' = now
               ELSE /\ lines' = lines + 1
                    /\ UNCHANGED <<floodwait, tasks, last_update>>
            /\ UNCHANGED <<current_msg, message_id>>
    /\ UNCHANGED <<cfgvars, now, remote, removed, lastFlood, overlap>>
    /\ UNCHANGED resetMark

\* Tick, were a timer to flush a buffer left waiting
TickWithTimer(d) ==
    /\ now + d <= StartTime + MaxElapsed
    /\ now' = now + d
    /\ IF messages # NoText /\ Len(tasks) < MaxTasks
       THEN /\ tasks' = Append(tasks, NewTask)
            /\ lines' = 0
            /\ last_update' = now'
            /\ UNCHANGED <<messages, current_msg, floodwait, message_id>>
       ELSE UNCHANGED <<progvars, tasks>>
    /\ UNCHANGED <<cfgvars, remote, histvars>>

\* time passes; nothing in the handler runs on a timer
Tick(d) ==
    /\ now + d <= StartTime + MaxElapsed
    /\ now' = now + d
    /\ UNCHANGED <<cfgvars, progvars, tasks, remote, histvars>>

------------------------------------------------------------------------------
(* The remote endpoint's answers, as send_request decodes them (124-127) *)

OkResp == [ok |-> TRUE, error_code |-> 200, hasParams |-> FALSE, retry_after |-> 0]

\* 401 Unauthorized
AuthError == [ok |-> FALSE, error_code |-> 401, hasParams |-> FALSE, retry_after |-> 0]

GenericError == [ok |-> FALSE, error_code |-> 400, hasParams |-> FALSE, retry_after |-> 0]

RateLimitError(r) == [ok |-> FALSE, error_code |-> 429, hasParams |-> TRUE, retry_after |-> r]

Errors == {AuthError, GenericError} \cup {RateLimitError(r) : r \in RetryAfters}

Responses == {OkResp} \cup Errors

\* text of the placeholder message of initialise, line 138
Placeholder == Rep("I", 1)

------------------------------------------------------------------------------
(* handle_error, lines 190-204: the value of self.floodwait afterwards *)

\* handle_error, were the larger of the old floor and retry_after kept
handle_error_max(resp) ==
    IF ~resp.hasParams
    THEN floodwait
    ELSE IF resp.retry_after # 0 THEN Max(floodwait, resp.retry_after) ELSE floodwait

handle_error(resp) ==
    IF ~resp.hasParams
    THEN floodwait
    ELSE IF resp.retry_after # 0 THEN resp.retry_after ELSE floodwait

\* the latest rate-limit answer handled, with the time it was handled
NoteError(resp) ==
    IF resp.hasParams /\ resp.retry_after # 0
    THEN [t |-> now, r |-> resp.retry_after]
    ELSE lastFlood

------------------------------------------------------------------------------
(* handle_logs, lines 86-122 *)

\* FileSpan, were the whole buffer taken
FileSpanWhole(_msg) == _msg

\* lines 88-91: the span sent as a file
FileSpan(_msg) ==
    LET msg == Rsplit0(_msg)
    IN  IF msg = NoText THEN _msg ELSE msg

\* Chunk, were the slice of line 97 sent as it is
ChunkHardCut(buf) == Take(buf, MaxChars)

\* Chunk, were the slice of line 97 not taken
ChunkUnsliced(buf) ==
    LET msg == Rsplit0(buf)
    IN  IF msg = NoText THEN buf ELSE msg

\* lines 97-100: the chunk of the text path
Chunk(buf) ==
    LET _message == Take(buf, MaxChars)
        msg == Rsplit0(_message)
    IN  IF msg = NoText THEN _message ELSE msg

\* Rest, were the newline after the chunk dropped with it
RestSkipsNewline(buf, msg) == Drop(buf, TLen(msg) + 1)

\* lines 94 and 103: what stays in self.messages once msg is taken
Rest(buf, msg) == Drop(buf, TLen(msg))

\* ToEdit, were the slice of line 111 kept as it is
ToEditHardCut(computed_message) == Take(computed_message, MaxChars)

\* lines 111-114: the part of an overlong text that stays in the old message
ToEdit(computed_message) ==
    LET _to_edit == Take(computed_message, MaxChars)
        to_edit == Rsplit0(_to_edit)
    IN  IF to_edit = NoText THEN _to_edit ELSE to_edit

\* line 110
Overlong(computed_message) == TLen(computed_message) > MaxChars

\* Candidate, were the committed text left out
CandidateChunkOnly(cm, msg) == msg

\* line 109
Candidate(cm, msg) == Cat(cm, msg)

\* lines 109-121 up to the first network call: the task and self.current_msg
Compose(tk, cm, mid) ==
    LET computed_message == Candidate(cm, tk.msg)
        to_edit == ToEdit(computed_message)
        to_new == Drop(computed_message, TLen(to_edit))
    IN  IF Overlong(computed_message)
        THEN IF to_edit # cm
             THEN [task |-> [tk EXCEPT !.pc = "edit_left",
                                       !.computed = computed_message,
                                       !.to_edit = to_edit, !.to_new = to_new,
                                       !.old_id = mid,
                                       !.req = [op |-> "edit", id |-> mid, text |-> to_edit]],
                   cur |-> cm]
             ELSE [task |-> [tk EXCEPT !.pc = "send_new",
                                       !.computed = computed_message,
                                       !.to_edit = to_edit, !.to_new = to_new,
                                       !.old_id = mid,
                                       !.req = [op |-> "send", id |-> 0, text |-> to_new]],
                   cur |-> to_new]
        ELSE [task |-> [tk EXCEPT !.pc = "edit",
                                  !.computed = computed_message,
                                  !.req = [op |-> "edit", id |-> mid, text |-> computed_message]],
              cur |-> cm]

\* flush task t waits for the answer to a request
InFlight(t) == tasks[t].pc \in {"verify", "init", "edit_left", "send_new", "edit", "file"}

\* CanStart, were a flush made to wait for the flushes in flight
CanStartExclusive(t) ==
    /\ tasks[t].pc = "start"
    /\ \A u \in 1..(t - 1) : tasks[u].pc # "start"
    /\ \A u \in 1..Len(tasks) : ~InFlight(u)

\* the event loop runs the tasks of line 82 in the order of their creation,
\* and nothing in handle_logs waits for another flush
CanStart(t) ==
    /\ tasks[t].pc = "start"
    /\ \A u \in 1..(t - 1) : tasks[u].pc # "start"

\* the first run of a flush task: lines 87-95, or 97-105 (and on to 121
\* when a message exists), up to its first network call
handle_logs(t) ==
    /\ CanStart(t)
    /\ IF TLen(messages) > pending
       THEN LET msg == FileSpan(messages)
            IN  /\ current_msg' = NoText
                /\ message_id' = 0
                /\ messages' = Rest(messages, msg)
                /\ removed' = Cat(removed, msg)
                /\ tasks' = [tasks EXCEPT ![t] =
                       [@ EXCEPT !.pc = "file", !.mode = "file", !.msg = msg,
                                 !.buflen = TLen(messages),
                                 !.req = [op |-> "file", id |-> 0, text |-> msg]]]
       ELSE LET msg == Chunk(messages)
                tk == [tasks[t] EXCEPT !.mode = "text", !.msg = msg,
                                       !.buflen = TLen(messages)]
            IN  /\ messages' = Rest(messages, msg)
                /\ removed' = Cat(removed, msg)
                /\ UNCHANGED message_id
                /\ IF message_id = 0
                   THEN /\ tasks' = [tasks EXCEPT ![t] =
                               [tk EXCEPT !.pc = "verify",
                                          !.req = [op |-> "getMe", id |-> 0, text |-> NoText]]]
                        /\ UNCHANGED current_msg
                   ELSE LET c == Compose(tk, current_msg, message_id)
                        IN  /\ tasks' = [tasks EXCEPT ![t] = c.task]
                            /\ current_msg' = c.cur
    /\ overlap' = (overlap \/ \E u \in 1..Len(tasks) : InFlight(u))
    /\ resetMark' = IF TLen(messages) > pending
                    THEN [msgs |-> Len(remote), chars |-> TLen(removed')]
                    ELSE resetMark
    /\ UNCHANGED <<cfgvars, floodwait, lines, last_update, now, remote>>
    /\ UNCHANGED <<emits, lastLine, accepted, accTimes, lastFlood>>

\* verify_bot answered (lines 129-134, 105-108); initialise sends its request
verify_bot(t, res) ==
    /\ tasks[t].pc = "verify"
    /\ IF res.ok \/ res.error_code = 401
       THEN tasks' = [tasks EXCEPT ![t] =
                [@ EXCEPT !.pc = "init",
                          !.req = [op |-> "send", id |-> 0, text |-> Placeholder]]]
       ELSE \* res.get("result") is None: AttributeError at line 133
            tasks' = [tasks EXCEPT ![t] =
                [@ EXCEPT !.pc = "raised", !.failed = TRUE, !.req = NoReq]]
    /\ UNCHANGED <<cfgvars, progvars, now, remote>>
    /\ UNCHANGED <<emits, lastLine, accepted, removed, accTimes, lastFlood,
                   overlap, resetMark>>

\* the placeholder sendMessage answered (lines 141-146), then lines 109-121
initialise(t, res) ==
    /\ tasks[t].pc = "init"
    /\ LET mid == IF res.ok THEN Len(remote) + 1 ELSE message_id
           c == Compose([tasks[t] EXCEPT !.failed = @ \/ ~res.ok],
                        current_msg, mid)
       IN  /\ message_id' = mid
           /\ remote' = IF res.ok THEN Append(remote, Placeholder) ELSE remote
           /\ floodwait' = IF res.ok THEN floodwait ELSE handle_error(res)
           /\ lastFlood' = IF res.ok THEN lastFlood ELSE NoteError(res)
           /\ tasks' = [tasks EXCEPT ![t] = c.task]
           /\ current_msg' = c.cur
    /\ UNCHANGED <<cfgvars, messages, lines, last_update, now>>
    /\ UNCHANGED <<emits, lastLine, accepted, removed, accTimes, overlap, resetMark>>

\* an editMessageText answered (lines 164-166): that of line 117, then
\* lines 118-119 up to the request of send_message; or that of line 121,
\* then line 122
edit_message(t, res) ==
    /\ tasks[t].pc \in {"edit_left", "edit"}
    /\ res.ok => tasks[t].req.id \in 1..Len(remote)
    /\ remote' = IF res.ok
                 THEN [remote EXCEPT ![tasks[t].req.id] = tasks[t].req.text]
                 ELSE remote
    /\ floodwait' = IF res.ok THEN floodwait ELSE handle_error(res)
    /\ lastFlood' = IF res.ok THEN lastFlood ELSE NoteError(res)
    /\ IF tasks[t].pc = "edit_left"
       THEN /\ current_msg' = tasks[t].to_new
            /\ tasks' = [tasks EXCEPT ![t] =
                   [@ EXCEPT !.pc = "send_new", !.failed = @ \/ ~res.ok,
                             !.req = [op |-> "send", id |-> 0, text |-> tasks[t].to_new]]]
       ELSE /\ current_msg' = tasks[t].computed
            /\ tasks' = [tasks EXCEPT ![t] =
                   [@ EXCEPT !.pc = "done", !.failed = @ \/ ~res.ok, !.req = NoReq]]
    /\ UNCHANGED <<cfgvars, messages, message_id, lines, last_update, now>>
    /\ UNCHANGED <<emits, lastLine, accepted, removed, accTimes, overlap, resetMark>>

\* the sendMessage of line 119 answered (lines 152-157)
send_message(t, res) ==
    /\ tasks[t].pc = "send_new"
    /\ message_id' = IF res.ok THEN Len(remote) + 1 ELSE message_id
    /\ remote' = IF res.ok THEN Append(remote, tasks[t].req.text) ELSE remote
    /\ floodwait' = IF res.ok THEN floodwait ELSE handle_error(res)
    /\ lastFlood' = IF res.ok THEN lastFlood ELSE NoteError(res)
    /\ tasks' = [tasks EXCEPT ![t] =
           [@ EXCEPT !.pc = "done", !.failed = @ \/ ~res.ok, !.req = NoReq]]
    /\ UNCHANGED <<cfgvars, messages, current_msg, lines, last_update, now>>
    /\ UNCHANGED <<emits, lastLine, accepted, removed, accTimes, overlap, resetMark>>

\* the sendDocument of line 95 answered (lines 182-188)
send_as_file(t, res) ==
    /\ tasks[t].pc = "file"
    /\ floodwait' = IF res.ok THEN floodwait ELSE handle_error(res)
    /\ lastFlood' = IF res.ok THEN lastFlood ELSE NoteError(res)
    /\ tasks' = [tasks EXCEPT ![t] =
           [@ EXCEPT !.pc = "done", !.failed = @ \/ ~res.ok, !.req = NoReq]]
    /\ UNCHANGED <<cfgvars, messages, current_msg, message_id, lines, last_update>>
    /\ UNCHANGED <<now, remote, emits, lastLine, accepted, removed, accTimes, overlap>>
    /\ UNCHANGED resetMark

------------------------------------------------------------------------------
(* The handler after __init__ (lines 41-68), and its steps *)

Init ==
    /\ \E cfg \in Configs :
           /\ wait_time = cfg.update_interval
           /\ minimum = cfg.minimum_lines
           /\ pending = cfg.pending_logs
           /\ ignore_match = IgnoreList(cfg.ignore_match)
    /\ messages = NoText
    /\ current_msg = NoText
    /\ floodwait = 0
    /\ message_id = 0
    /\ lines = 0
    /\ last_update = 0
    /\ now = StartTime
    /\ tasks = <<>>
    /\ remote = <<>>
    /\ emits = 0
    /\ lastLine = NoText
    /\ accepted = NoText
    /\ removed = NoText
    /\ accTimes = <<>>
    /\ lastFlood = [t |-> 0, r |-> 0]
    /\ overlap = FALSE
    /\ resetMark = [msgs |-> 0, chars |-> 0]

Next ==
    \/ \E l \in Lines : emit(l)
    \/ \E d \in TickSteps : Tick(d)
    \/ \E t \in 1..Len(tasks) : handle_logs(t)
    \/ \E t \in 1..Len(tasks), res \in Responses : verify_bot(t, res)
    \/ \E t \in 1..Len(tasks), res \in Responses : initialise(t, res)
    \/ \E t \in 1..Len(tasks), res \in Responses : edit_message(t, res)
    \/ \E t \in 1..Len(tasks), res \in Responses : send_message(t, res)
    \/ \E t \in 1..Len(tasks), res \in Responses : send_as_file(t, res)

Spec == Init /\ [][Next]_vars

------------------------------------------------------------------------------
(* Properties *)

Started(t) == tasks[t].pc # "start"

\* the step is an emit() of a line that was not ignored
Accepting == Len(accTimes') = Len(accTimes) + 1

\* the step schedules a flush
Scheduling == Len(tasks') = Len(tasks) + 1

\* C1: buffer conservation under any interleaving of emit() and flush
\* tasks: the chunks removed from self.messages so far, in removal order,
\* followed by self.messages, are the accepted lines, each with its newline,
\* in acceptance order.
C1_Conservation == Cat(removed, messages) = accepted

\* C1: two flushes have carved their chunks and are both waiting on the
\* network while further accepted text waits in the buffer
C1_Witness ==
    /\ \E t, u \in 1..Len(tasks) : t # u /\ InFlight(t) /\ InFlight(u)
                                   /\ tasks[t].msg # NoText /\ tasks[u].msg # NoText
    /\ messages # NoText
    /\ Len(accTimes) = 3

\* C2: the example: update_interval 5 and minimum_lines 3, two lines 6
\* seconds apart and a third right after the second
C2_Example ==
    (wait_time = 5 /\ minimum = 3 /\ Len(accTimes) >= 2 /\ accTimes[2] - accTimes[1] = 6)
    => /\ Len(accTimes) = 2 => tasks = <<>>
       /\ (Len(accTimes) = 3 /\ accTimes[3] = accTimes[2]) => Len(tasks) = 1

\* C2: an emit() of a line that is not ignored schedules a flush exactly when
\* now - last_update >= max(update_interval, floodwait) and the line count,
\* this line included, is at least minimum_lines
C2_Step ==
    Accepting =>
        (Scheduling <=> ( /\ now - last_update >= wait_time
                          /\ now - last_update >= floodwait
                          /\ lines + 1 >= minimum ))

\* C2: gate condition, for every accepted line, with the example
C2_GateCondition == [](C2_Example) /\ [][C2_Step]_vars

\* C2: the third line of the example has scheduled the one flush
C2_Witness ==
    /\ wait_time = 5 /\ minimum = 3
    /\ Len(accTimes) = 3
    /\ accTimes[2] - accTimes[1] = 6
    /\ accTimes[3] = accTimes[2]
    /\ Len(tasks) = 1

\* C3: rate-limit backoff as claimed: once an answer with retry_after = R has
\* been handled, no flush is scheduled before R seconds have passed since
\* that answer was received
C3_BackoffSinceError ==
    [][Scheduling => (lastFlood.r = 0 \/ now - lastFlood.t >= lastFlood.r)]_vars

\* the line holds one of the configured ignore-substrings
C4_Matches(line) ==
    \E k \in 1..Len(ignore_match.list) : Contains(line, ignore_match.list[k])

\* C4: an emit() of a line holding a configured ignore-substring changes
\* nothing of the handler and schedules nothing; any other line is appended
\* with its newline and counted
C4_Step ==
    (emits' = emits + 1) =>
        IF C4_Matches(lastLine')
        THEN UNCHANGED <<progvars, tasks>>
        ELSE /\ messages' = Cat(messages, Cat(lastLine', Rep(NL, 1)))
             /\ lines' = IF Scheduling THEN 0 ELSE lines + 1

\* C4: ignore filter
C4_IgnoreFilter == [][C4_Step]_vars

\* C4: the first line handed to emit() held an ignore-substring, and is
\* dropped although the gate would have let a flush through
C4_Witness ==
    /\ emits = 1
    /\ C4_Matches(lastLine)
    /\ now - last_update >= Max(wait_time, floodwait) /\ lines + 1 >= minimum
    /\ messages = NoText /\ lines = 0 /\ tasks = <<>>

\* C5 as claimed: a flush removes at most pending_logs characters on the
\* file path and at most 4050 on the text path
C5_BoundAsClaimed ==
    \A t \in 1..Len(tasks) :
        /\ tasks[t].mode = "file" => TLen(tasks[t].msg) <= pending
        /\ tasks[t].mode = "text" => TLen(tasks[t].msg) <= 4050

\* C5, amended: a flush on the text path removes at most 4050 characters; a
\* flush on the file path removes at most the whole buffer, which is longer
\* than pending_logs
C5_RemovalBound ==
    \A t \in 1..Len(tasks) :
        /\ tasks[t].mode = "text" => TLen(tasks[t].msg) <= 4050
        /\ tasks[t].mode = "file" => /\ TLen(tasks[t].msg) <= tasks[t].buflen
                                     /\ tasks[t].buflen > pending

\* C5: a file flush has removed more than pending_logs characters, and a
\* text flush exactly 4050
C5_Witness ==
    /\ \E t \in 1..Len(tasks) :
           tasks[t].mode = "file" /\ TLen(tasks[t].msg) > pending
    /\ \E t \in 1..Len(tasks) :
           tasks[t].mode = "text" /\ TLen(tasks[t].msg) = 4050

\* the step is the first run of flush task t, on the text path
C6_Carving(t) ==
    tasks[t].pc = "start" /\ tasks'[t].pc # "start" /\ tasks'[t].mode = "text"

HasNewline(s) == LastNLRun(s) # 0

\* the chunk as claimed: the slice cut back to its last newline, the whole
\* slice only when it holds no newline
C6_Claimed(buf) ==
    LET slice == Take(buf, 4050)
    IN  IF HasNewline(slice) THEN Rsplit0(slice) ELSE slice

\* the chunk as amended: the whole slice also when nothing precedes its
\* last newline
C6_Amended(buf) ==
    LET slice == Take(buf, 4050)
    IN  IF HasNewline(slice) /\ Rsplit0(slice) # NoText THEN Rsplit0(slice) ELSE slice

\* C6 as claimed, already for flushes that run one after the other: the
\* chunk of the text path is the slice of the first min(4050, len)
\* characters cut back to the last newline in it, and the whole slice only
\* when the slice holds no newline
C6_ChunkAsClaimed ==
    [][\A t \in 1..Len(tasks) :
           (C6_Carving(t) /\ ~overlap')
               => tasks'[t].msg = C6_Claimed(messages)]_vars

\* C6, amended: the chunk is the text before the last newline of the slice
\* (that newline stays in the buffer); the whole slice is used when the slice
\* holds no newline or when its only newline is its first character; the
\* chunk is what leaves the buffer
C6_ChunkBoundary ==
    [][\A t \in 1..Len(tasks) :
           C6_Carving(t) => /\ tasks'[t].msg = C6_Amended(messages)
                            /\ Cat(tasks'[t].msg, messages') = messages]_vars

\* C6: one flush took a whole slice that begins with the newline left by the
\* flush before it, another cut its slice back to a newline
C6_Witness ==
    /\ \E t \in 1..Len(tasks) :
           /\ tasks[t].mode = "text"
           /\ TLen(tasks[t].msg) = Min(tasks[t].buflen, 4050)
           /\ tasks[t].msg # NoText /\ tasks[t].msg[1].c = NL
    /\ \E t \in 1..Len(tasks) :
           /\ tasks[t].mode = "text"
           /\ TLen(tasks[t].msg) < Min(tasks[t].buflen, 4050)

\* flush task t took the rollover branch of line 110
C7_Rolled(t) == TLen(tasks[t].computed) > 4050

C7_Split ==
    \A t \in 1..Len(tasks) :
        C7_Rolled(t) =>
            /\ Cat(tasks[t].to_edit, tasks[t].to_new) = tasks[t].computed
            /\ tasks[t].to_edit = C6_Amended(tasks[t].computed)
            /\ tasks[t].pc \in {"edit_left", "send_new", "done"}
            /\ tasks[t].pc = "edit_left" =>
                   /\ tasks[t].req.op = "edit"
                   /\ tasks[t].req.text = tasks[t].to_edit
            /\ tasks[t].pc = "send_new" =>
                   /\ tasks[t].req.op = "send"
                   /\ tasks[t].req.text = tasks[t].to_new

\* C7, amended, the steps of a rolled-over flush: left is edited in unless it
\* equals committed_text; committed_text becomes right when right is sent;
\* when that send-text succeeds the identifier is that of the new message,
\* which holds right, and otherwise it is unchanged
C7_Steps ==
    \A t \in 1..Len(tasks) :
        /\ (tasks[t].pc \in {"start", "init"} /\ tasks'[t].pc = "edit_left")
               => tasks'[t].to_edit # current_msg
        /\ (tasks[t].pc \in {"start", "init"} /\ tasks'[t].pc = "send_new")
               => tasks'[t].to_edit = current_msg
        /\ (tasks[t].pc # "send_new" /\ tasks'[t].pc = "send_new")
               => current_msg' = tasks'[t].to_new
        /\ (tasks[t].pc = "send_new" /\ tasks'[t].pc = "done")
               => IF Len(remote') = Len(remote) + 1
                  THEN /\ message_id' = Len(remote')
                       /\ message_id' # message_id
                       /\ remote'[message_id'] = tasks[t].to_new
                  ELSE message_id' = message_id /\ remote' = remote

C8_ResetUntilNextTextFlush ==
    \A t \in 1..Len(tasks) :
        (Started(t) /\ tasks[t].mode = "file") =>
            /\ tasks[t].pc \in {"file", "done"}
            /\ tasks[t].pc = "file" => tasks[t].req.op = "file"
            /\ (\A u \in (t + 1)..Len(tasks) : ~Started(u))
                   => (message_id = 0 /\ current_msg = NoText)

\* C9 as claimed, already for flushes that run one after the other: every
\* send-text and edit-text request carries at most 4050 characters of log
\* content, and committed_text never exceeds 4050
C9_TextCap ==
    ~overlap =>
        /\ TLen(current_msg) <= 4050
        /\ \A t \in 1..Len(tasks) :
               tasks[t].req.op \in {"send", "edit"}
                   => TLen(tasks[t].req.text) <= 4050

\* C10 as claimed: whatever a remote operation answers, the flush task runs
\* to its end without raising
C10_NoRaise == \A t \in 1..Len(tasks) : tasks[t].pc # "raised"

\* x occurs in s
Within(x, s) ==
    LET k == Len(x)
    IN  \/ k = 0
        \/ \E i \in 1..(Len(s) - k + 1) :
               /\ s[i].c = x[1].c
               /\ s[i + k - 1].c = x[k].c
               /\ IF k = 1
                  THEN s[i].n >= x[1].n
                  ELSE /\ s[i].n >= x[1].n
                       /\ s[i + k - 1].n >= x[k].n
                       /\ \A j \in 2..(k - 1) : s[i + j - 1] = x[j]

\* flush task t has finished after an error answer to one of its requests
C11_Failed(t) ==
    tasks[t].failed /\ tasks[t].pc = "done" /\ tasks[t].msg # NoText

\* the step is the answer to a request of flush task t
Answered(t) == InFlight(t) /\ tasks'[t].pc # tasks[t].pc

\* C11 as claimed, already for flushes that run one after the other and for
\* the edit-text request of a later flush: an answer leaves the buffer as it
\* is, and the chunk of a flush that met an error answer is lost, the text a
\* later flush puts before its own chunk does not contain it
C11_ContentLost ==
    [][\A u \in 1..Len(tasks) :
           /\ Answered(u) => messages' = messages
           /\ (~overlap' /\ tasks[u].pc # "edit" /\ tasks'[u].pc = "edit")
                  => \A t \in 1..Len(tasks) :
                         (t # u /\ C11_Failed(t))
                             => ~Within(tasks[t].msg,
                                        Take(tasks'[u].req.text,
                                             TLen(tasks'[u].req.text)
                                                 - TLen(tasks'[u].msg)))]_vars

\* no flush task waits for an answer
Quiet == \A t \in 1..Len(tasks) : ~InFlight(t)

\* no request of a flush was answered with an error
AllOk == \A t \in 1..Len(tasks) : ~tasks[t].failed

\* the texts of the messages of the chat after the first k, in creation order
Shown(k) ==
    LET cat[i \in k..Len(remote)] ==
            IF i = k THEN NoText ELSE Cat(cat[i - 1], remote[i])
    IN  cat[Len(remote)]

\* the chunks carved by text flushes since the last file flush, in order
Carved == Drop(removed, resetMark.chars)

\* the session names a message of the chat that shows committed_text
C12_Committed ==
    message_id # 0 => /\ message_id \in 1..Len(remote)
                      /\ remote[message_id] = current_msg

\* C12: end-to-end delivery when flushes run one after the other and every
\* request is answered ok: whenever no flush is running, the texts of the
\* messages created since the last file flush, in creation order, make up
\* the chunks carved since then, and committed_text is the text of the
\* message the session names
C12_Delivery ==
    (~overlap /\ AllOk /\ Quiet)
        => /\ Shown(resetMark.msgs) = Carved
           /\ C12_Committed

\* C12: three flushes have run one after the other, all answered ok, one of
\* them rolled over, and the chat holds two messages making up the chunks
C12_Witness ==
    /\ ~overlap /\ AllOk /\ Quiet
    /\ Len(tasks) = 3
    /\ \A t \in 1..Len(tasks) : tasks[t].pc = "done" /\ tasks[t].mode = "text"
    /\ \E t \in 1..Len(tasks) : C7_Rolled(t)
    /\ Len(remote) = 2
    /\ message_id = 2
    /\ Carved # NoText

\* C13: an emit() of a line that is not ignored either schedules a flush and
\* in the same step sets the line count to 0, last_update to the current
\* time and floodwait to 0, or schedules nothing, leaves last_update and
\* floodwait as they are and keeps the incremented line count
C13_Step ==
    Accepting =>
        IF Scheduling
        THEN lines' = 0 /\ last_update' = now /\ floodwait' = 0
        ELSE /\ lines' = lines + 1
             /\ last_update' = last_update
             /\ floodwait' = floodwait

\* C13: gate resets
C13_GateResets == [][C13_Step]_vars

\* C13: a flush has just been scheduled after a rate-limit answer had set
\* the floor, which is 0 again
C13_Witness ==
    /\ lastFlood.r # 0
    /\ floodwait = 0 /\ lines = 0 /\ last_update = now
    /\ Len(tasks) >= 2
    /\ tasks[Len(tasks)].pc = "start"

\* C14: handle_error, for every error answer in every reachable state: with
\* a retry_after parameter the floor becomes exactly retry_after, without
\* structured parameters it stays as it is
C14_Function ==
    \A resp \in Errors :
        handle_error(resp) = IF resp.hasParams THEN resp.retry_after ELSE floodwait

\* C14: the step that handles an answer: the floor changes only to the
\* retry_after of a rate-limit answer just handled, whatever it was before;
\* the buffer, the line count and last_update stay as they are, the
\* identifier changes only with a message created by an ok answer, and
\* committed_text only by the assignments of lines 118 and 122
C14_Frame ==
    \A t \in 1..Len(tasks) :
        Answered(t) =>
            /\ lastFlood' # lastFlood => floodwait' = lastFlood'.r
            /\ floodwait' # floodwait
                   => lastFlood' = [t |-> now, r |-> floodwait']
            /\ messages' = messages
            /\ lines' = lines
            /\ last_update' = last_update
            /\ message_id' # message_id => Len(remote') = Len(remote) + 1
            /\ current_msg' # current_msg
                   => current_msg' \in {tasks[t].computed, tasks[t].to_new,
                                        tasks'[t].to_new}

\* C14: effect of handle_error
C14_HandleError == [](C14_Function) /\ [][C14_Frame]_vars

\* C14: a rate-limit answer with retry_after 3 has been handled by a flush
\* that had met an error before, and the floor is 3
C14_Witness ==
    /\ floodwait = 3
    /\ lastFlood = [t |-> now, r |-> 3]
    /\ \E t \in 1..Len(tasks) :
           tasks[t].failed /\ tasks[t].pc = "done" /\ C7_Rolled(t)

\* C15 as claimed, already when flushes run one after the other and none is
\* running: committed_text is empty while the session has no identifier,
\* and otherwise it is the text that the message named by the identifier
\* shows, confirmed by a successful send-text or edit-text
C15_CommittedIsConfirmed ==
    (~overlap /\ Quiet)
        => /\ message_id = 0 => current_msg = NoText
           /\ current_msg # NoText => C12_Committed

\* flush task t is scheduled and the one scheduled before it has started
C16_NextToStart(t) ==
    tasks[t].pc = "start" /\ (t > 1 => tasks[t - 1].pc # "start")

\* C16: emit() schedules a flush whenever the gate passes, whatever the
\* flushes scheduled before are doing, and a scheduled flush is free to
\* start (CanStart is what enables handle_logs) as soon as the one before it
\* has started, also while flushes wait for their answers
C16_NotExclusive ==
    /\ [](\A t \in 1..Len(tasks) : C16_NextToStart(t) => CanStart(t))
    /\ [][(Accepting /\ Gate(now - last_update, lines + 1)) => Scheduling]_vars

\* C16: two text flushes are in flight at once, the second scheduled and
\* started while the first waited; each has carved its chunk from the one
\* buffer and composed its text from the one committed text
C16_Witness ==
    \E t, u \in 1..Len(tasks) :
        /\ t < u
        /\ tasks[t].mode = "text" /\ tasks[u].mode = "text"
        /\ tasks[t].pc \in {"edit", "send_new"}
        /\ tasks[u].pc \in {"edit", "edit_left"}
        /\ tasks[t].req.id = tasks[u].req.id
        /\ overlap

\* the step is the first run of flush task t, on the file path
C17_Filing(t) ==
    tasks[t].pc = "start" /\ tasks'[t].pc # "start" /\ tasks'[t].mode = "file"

EndsWithNewline(s) == s # NoText /\ s[Len(s)].c = NL

\* C17 as claimed, already for flushes that run one after the other: the
\* span sent as a file is everything up to and including the last newline
\* of the buffer, the whole buffer when it holds none, so that a buffer
\* ending with a newline is left empty
C17_SpanAsClaimed ==
    [][\A t \in 1..Len(tasks) :
           (C17_Filing(t) /\ ~overlap')
               => /\ tasks'[t].msg =
                         IF HasNewline(messages)
                         THEN Take(messages, TLen(Rsplit0(messages)) + 1)
                         ELSE messages
                  /\ EndsWithNewline(messages) => messages' = NoText]_vars

\* C17, amended: the span sent as a file is the text before the last newline
\* of the buffer, and the whole buffer when it holds no newline or nothing
\* precedes its last newline; the span is what leaves the buffer, so a
\* buffer that ends with a newline after other text is left holding that
\* newline
C17_FileSpan ==
    [][\A t \in 1..Len(tasks) :
           C17_Filing(t)
               => /\ tasks'[t].msg =
                         IF HasNewline(messages) /\ Rsplit0(messages) # NoText
                         THEN Rsplit0(messages)
                         ELSE messages
                  /\ Cat(tasks'[t].msg, messages') = messages
                  /\ (EndsWithNewline(messages) /\ Rsplit0(messages) # NoText)
                         => messages' = Rep(NL, 1)]_vars

\* C17: a file flush took all of a buffer of two long lines but its last
\* newline, which is what the buffer holds now
C17_Witness ==
    /\ \E t \in 1..Len(tasks) :
           /\ tasks[t].mode = "file"
           /\ tasks[t].pc = "file"
           /\ tasks[t].buflen > pending
           /\ TLen(tasks[t].msg) = tasks[t].buflen - 1
           /\ HasNewline(tasks[t].msg)
           /\ tasks[t].req.text = tasks[t].msg
    /\ messages = Rep(NL, 1)

\* flush task t has gone through the rollover branch, lines 111-119, from a
\* message that existed
C18_RolledOver(t) ==
    C7_Rolled(t) /\ tasks[t].pc = "done" /\ tasks[t].old_id # 0

\* C18 as claimed, already for flushes that run one after the other and
\* when no other flush met an error: once a flush has rolled over, whatever
\* the answer to its send-text was, no edit-text request issued afterwards
\* names the message it rolled over from
C18_OldDiscarded ==
    [][\A u \in 1..Len(tasks) :
           (~overlap' /\ tasks'[u].req # tasks[u].req /\ tasks'[u].req.op = "edit")
               => \A t \in 1..Len(tasks) :
                      ( /\ t # u
                        /\ C18_RolledOver(t)
                        /\ \A v \in 1..Len(tasks) : tasks[v].failed => v = t )
                          => tasks'[u].req.id # tasks[t].old_id]_vars

\* every flush task has run to its end
C19_AllFinished == \A t \in 1..Len(tasks) : tasks[t].pc \in {"done", "raised"}

\* C19: a flush task is created only by an emit() of a line that is not
\* ignored and passes the gate; and while every flush task has finished,
\* any step other than such an emit(), the passing of time included, leaves
\* the handler's fields, the tasks and the chat as they are
C19_Step ==
    /\ Scheduling => /\ Accepting
                     /\ Gate(now - last_update, lines + 1)
                     /\ tasks' = Append(tasks, NewTask)
    /\ (C19_AllFinished /\ ~Accepting)
           => UNCHANGED <<progvars, tasks, remote>>

\* C19: flushes are driven only by intake
C19_IntakeDriven == [][C19_Step]_vars

\* C19: the one flush has finished, a line accepted after it was scheduled
\* is still in the buffer, and the update interval has passed since
C19_Witness ==
    /\ Len(tasks) = 1
    /\ C19_AllFinished
    /\ TLen(messages) > 1
    /\ lines >= 1
    /\ now - last_update >= Max(wait_time, floodwait)
    /\ lines >= minimum

\* C20 as claimed: whatever the interleaving of emit() and flush tasks, when
\* every request was answered ok and every flush task has finished, the
\* messages created since the last file flush make up, in creation order,
\* the chunks carved since then, committed_text is the text of the message
\* the session names, and no more messages exist than one placeholder for
\* each time the session was without identifier and one for each rollover
C20_NoLossUnderOverlap ==
    (AllOk /\ C19_AllFinished)
        => /\ Shown(resetMark.msgs) = Carved
           /\ C12_Committed
           /\ Len(remote) - Cardinality({t \in 1..Len(tasks) : C7_Rolled(t)})
                  <= 1 + Cardinality({t \in 1..Len(tasks) : tasks[t].mode = "file"})

====
